---- MODULE Spec2Model ----
(***************************************************************************)
(* StockScorePro (stockscorepro.py): per-ticker scoring against the 50-day *)
(* moving average, validation of the score record, concurrent collection   *)
(* of the records and proportional allocation of a monthly capital.        *)
(*                                                                         *)
(* Python/numpy floats are modelled as exact rationals extended with NaN,  *)
(* +Infinity and -Infinity and the IEEE-754 rules for them (x/0, 0/0,      *)
(* Inf-Inf, 0*Inf, comparisons with NaN are false).  Rounding error of the *)
(* binary representation and the sign of zero are not modelled.            *)
(***************************************************************************)
EXTENDS Integers, Sequences, FiniteSets, TLC

\* ------------------------------------------------------------------ bounds
\* longest price history the provider returns
MaxLen == 55
\* longest run of recent closes that differ from the base
MaxTail == 5
\* largest close, in whole currency units
MaxPrice == 2
\* longest ticker list handed to fetch_all_data
MaxTickers == 3
\* longest record list handed to allocate_investment
MaxRecords == 3
\* largest Score sample handed to allocate_investment
MaxScore == 3
\* largest metric sample (in halves) handed to validate_result
MaxSample == 3

\* ------------------------------------------------------- program constants
\* rolling(window=50)
Window == 50
\* ma50_series.iloc[-5], len(ma50_series) >= 5
SlopeIndex == 5
\* ThreadPoolExecutor(max_workers=8)
MaxWorkers == 8

\* ------------------------------------------------------------------ floats
AbsInt(i) == IF i < 0 THEN -i ELSE i

RECURSIVE GCD(_, _)
GCD(a, b) == IF b = 0 THEN a ELSE GCD(b, a % b)

\* the float n/d (d # 0), in lowest terms with a positive denominator
Rat(n, d) ==
    LET g == GCD(AbsInt(n), AbsInt(d))
        s == IF d < 0 THEN -1 ELSE 1
    IN  [k |-> "fin", n |-> (s * n) \div g, d |-> (s * d) \div g]

Num(i) == [k |-> "fin", n |-> i, d |-> 1]
Zero == Num(0)
One == Num(1)
NaN == [k |-> "nan", n |-> 0, d |-> 1]
PInf == [k |-> "inf", n |-> 1, d |-> 1]
NInf == [k |-> "inf", n |-> -1, d |-> 1]
\* Python's None, and a key that the dict does not hold
None == [k |-> "none", n |-> 0, d |-> 1]
Missing == [k |-> "missing", n |-> 0, d |-> 1]

IsNaN(x) == x.k = "nan"
IsInf(x) == x.k = "inf"
IsFin(x) == x.k = "fin"
IsFloat(x) == x.k \in {"fin", "inf", "nan"}
SignOf(x) == IF x.n > 0 THEN 1 ELSE IF x.n < 0 THEN -1 ELSE 0
InfOf(s) == IF s < 0 THEN NInf ELSE PInf

FNeg(x) == IF IsNaN(x) THEN NaN ELSE [x EXCEPT !.n = -x.n]

FAbs(x) == IF IsNaN(x) THEN NaN ELSE [x EXCEPT !.n = AbsInt(x.n)]

FAdd(a, b) ==
    IF IsNaN(a) \/ IsNaN(b) THEN NaN
    ELSE IF IsInf(a) /\ IsInf(b) THEN (IF a = b THEN a ELSE NaN)
    ELSE IF IsInf(a) THEN a
    ELSE IF IsInf(b) THEN b
    ELSE Rat(a.n * b.d + b.n * a.d, a.d * b.d)

FSub(a, b) == FAdd(a, FNeg(b))

FMul(a, b) ==
    IF IsNaN(a) \/ IsNaN(b) THEN NaN
    ELSE IF IsInf(a) \/ IsInf(b)
         THEN (IF SignOf(a) = 0 \/ SignOf(b) = 0 THEN NaN
               ELSE InfOf(SignOf(a) * SignOf(b)))
    ELSE Rat(a.n * b.n, a.d * b.d)

FDiv(a, b) ==
    IF IsNaN(a) \/ IsNaN(b) THEN NaN
    ELSE IF IsInf(a) THEN (IF IsInf(b) THEN NaN
                           ELSE InfOf(SignOf(a) * (IF SignOf(b) < 0 THEN -1 ELSE 1)))
    ELSE IF IsInf(b) THEN Zero
    ELSE IF b.n = 0 THEN (IF a.n = 0 THEN NaN ELSE InfOf(SignOf(a)))
    ELSE Rat(a.n * b.d, a.d * b.n)

\* a < b; false when either side is NaN
FLt(a, b) ==
    /\ IsFloat(a) /\ IsFloat(b)
    /\ ~IsNaN(a) /\ ~IsNaN(b)
    /\ a # b
    /\ \/ a = NInf
       \/ b = PInf
       \/ IsFin(a) /\ IsFin(b) /\ a.n * b.d < b.n * a.d

FGt(a, b) == FLt(b, a)
FLe(a, b) == IsFloat(a) /\ IsFloat(b) /\ ~IsNaN(a) /\ ~IsNaN(b) /\ (a = b \/ FLt(a, b))
FGe(a, b) == FLe(b, a)

\* Python's max(a, b) and min(a, b): the first argument stays unless the
\* second compares strictly greater (smaller); a NaN second argument never does
PyMax(a, b) == IF FGt(b, a) THEN b ELSE a
PyMin(a, b) == IF FLt(b, a) THEN b ELSE a

\* floor(16 * y) for a finite y >= 0, without an intermediate 16 * y.n
Floor16(y) == (y.n \div y.d) * 16 + ((y.n % y.d) * 16) \div y.d

\* math.exp on the argument the Scorer gives it (never positive): NaN stays
\* NaN, -Infinity gives 0.0, beyond -745 the double underflows to 0.0, and
\* exp(0) = 1.  In between, the value is the rational approximation
\* 1 / (1 + y + y^2/2) of exp(-y), with y cut to 1/16 and the result to
\* 1/1024, never 0 (the double is positive there too).
Exp(x) ==
    IF IsNaN(x) THEN NaN
    ELSE IF IsInf(x) THEN (IF x = NInf THEN Zero ELSE PInf)
    ELSE IF FGe(FAbs(x), Num(745)) THEN (IF x.n < 0 THEN Zero ELSE PInf)
    ELSE LET p == Floor16(FAbs(x))
             k == (1024 * 512) \div (512 + 32 * p + p * p)
             e == Rat(IF k < 1 THEN 1 ELSE k, 1024)
         IN  IF x.n > 0 THEN FDiv(One, e) ELSE e

\* Round2 that cuts the digits after the second instead of rounding
Truncate2(x) ==
    IF ~IsFin(x) THEN x
    ELSE Rat((x.n \div x.d) * 100 + ((x.n % x.d) * 100) \div x.d, 100)

\* numpy's round(2): to the nearest hundredth, a tie to the even hundredth
Round2(x) ==
    IF ~IsFin(x) THEN x
    ELSE LET whole == x.n \div x.d
             rest == (x.n % x.d) * 100
             q == whole * 100 + rest \div x.d
             r == rest % x.d
             cents == IF 2 * r < x.d THEN q
                      ELSE IF 2 * r > x.d THEN q + 1
                      ELSE IF q % 2 = 0 THEN q ELSE q + 1
         IN  Rat(cents, 100)

\* the sum of a series; the halves are summed apart to keep the recursion
\* shallow, which changes nothing for exact values
RECURSIVE FSum(_)
FSum(s) ==
    IF Len(s) = 0 THEN Zero
    ELSE IF Len(s) = 1 THEN s[1]
    ELSE LET h == Len(s) \div 2
         IN  FAdd(FSum(SubSeq(s, 1, h)), FSum(SubSeq(s, h + 1, Len(s))))

\* ------------------------------------------------------------ score record
ScoreResult(t, c, cp, ma, dist, fl, pr, bo, sc) ==
    [Ticker |-> t, Company |-> c, CurrentPrice |-> cp, MA50 |-> ma,
     DistancePct |-> dist, Flatness |-> fl, Proximity |-> pr, Bonus |-> bo,
     Score |-> sc]

\* dict.get(key, default)
Get(v, default) == IF v = Missing THEN default ELSE v

\* PricesInvalid that lets a price of exactly 0 pass
PricesNegative(cp, ma50) == cp = None \/ ma50 = None \/ FLt(cp, Zero) \/ FLt(ma50, Zero)

\* the condition of line 24
PricesInvalid(cp, ma50) == cp = None \/ ma50 = None \/ FLe(cp, Zero) \/ FLe(ma50, Zero)

\* validate_result, rule by rule in the order of the code
validate_result(result) ==
    LET cp == Get(result.CurrentPrice, None)
        ma50 == Get(result.MA50, None)
        r1 == IF PricesInvalid(cp, ma50)
              THEN [result EXCEPT !.Score = Zero] ELSE result
        flatness == Get(r1.Flatness, Zero)
        r2 == IF FLt(flatness, Zero) \/ FGt(flatness, One)
              THEN [r1 EXCEPT !.Flatness = PyMax(Zero, PyMin(flatness, One))] ELSE r1
        proximity == Get(r2.Proximity, Zero)
        r3 == IF FLt(proximity, Zero) \/ FGt(proximity, One)
              THEN [r2 EXCEPT !.Proximity = PyMax(Zero, PyMin(proximity, One))] ELSE r2
        bonus == Get(r3.Bonus, One)
        r4 == IF FLt(bonus, One) THEN [r3 EXCEPT !.Bonus = One] ELSE r3
        score == Get(r4.Score, Zero)
        r5 == IF IsNaN(score) \/ IsInf(score) THEN [r4 EXCEPT !.Score = Zero] ELSE r4
    IN  r5

\* FallbackRecord with the company left empty
FallbackNoCompany(ticker) ==
    ScoreResult(ticker, "", None, None, Zero, Zero, Zero, Zero, Zero)

\* the record of the except branch
FallbackRecord(ticker) ==
    ScoreResult(ticker, ticker, None, None, Zero, Zero, Zero, Zero, Zero)

\* CompanyName without the last alternative
CompanyNameNoTicker(info, ticker) ==
    IF info.longName # "" THEN info.longName ELSE info.shortName

\* info.get("longName") or info.get("shortName") or ticker; an absent name
\* (None) and an empty one are both falsy and are both the empty string here
CompanyName(info, ticker) ==
    IF info.longName # "" THEN info.longName
    ELSE IF info.shortName # "" THEN info.shortName
    ELSE ticker

\* data.sort_index(): the rows in ascending date order, whatever order they
\* came in.  The dates of n rows are the trading days 1..n, so the i-th row
\* of the result is the one dated i.
sort_index(rows) ==
    [i \in 1..Len(rows) |-> rows[CHOOSE j \in 1..Len(rows) : rows[j].date = i]]

Closes(data) == [i \in 1..Len(data) |-> data[i].close]

\* data['Close'].rolling(window).mean(): undefined (NaN) for the first
\* window-1 rows and wherever the window holds a NaN
RollingMean(close, window) ==
    [i \in 1..Len(close) |->
        IF i < window THEN NaN
        ELSE FDiv(FSum(SubSeq(close, i - window + 1, i)), Num(window))]

dropna(series) == SelectSeq(series, LAMBDA x : ~IsNaN(x))

MA50Series(rows) == dropna(RollingMean(Closes(sort_index(rows)), Window))

Threshold == Rat(5, 100)
Sigma == Rat(3, 100)
Gamma == Num(1)

\* slope of the moving average, as fetch_stock_data computes it
Slope(ma50_series) ==
    IF Len(ma50_series) >= SlopeIndex
    THEN LET ma50_latest == ma50_series[Len(ma50_series)]
             ma50_5days_ago == ma50_series[Len(ma50_series) - SlopeIndex + 1]
         IN  FDiv(FSub(ma50_latest, ma50_5days_ago), ma50_5days_ago)
    ELSE Zero

Flatness(slope) == PyMax(Zero, FSub(One, FDiv(FAbs(slope), Threshold)))

Distance(current_price, ma50_latest) ==
    FDiv(FSub(current_price, ma50_latest), ma50_latest)

Proximity(d) == Exp(FDiv(FNeg(FMul(d, d)), FMul(Num(2), FMul(Sigma, Sigma))))

Bonus(d) == IF FLt(d, Zero) THEN FAdd(One, FMul(Gamma, FNeg(d))) ELSE One

\* the ValueError of line 76
TooFewRows(rows) == rows = <<>> \/ Len(rows) < Window

\* the try body of fetch_stock_data from the history on: what it raises or
\* returns, and the slope it used
ScoreBody(ticker, company_name, rows) ==
    IF TooFewRows(rows)
    THEN [raised |-> TRUE, slope |-> None, result |-> FallbackRecord(ticker)]
    ELSE LET close == Closes(sort_index(rows))
             ma50_series == dropna(RollingMean(close, Window))
         IN  IF ma50_series = <<>>
             THEN [raised |-> TRUE, slope |-> None, result |-> FallbackRecord(ticker)]
             ELSE LET current_price == close[Len(close)]
                      ma50_latest == ma50_series[Len(ma50_series)]
                      slope == Slope(ma50_series)
                      flatness == Flatness(slope)
                      d == Distance(current_price, ma50_latest)
                      proximity == Proximity(d)
                      bonus == Bonus(d)
                      score == FMul(FMul(flatness, proximity), bonus)
                  IN  [raised |-> FALSE, slope |-> slope,
                       result |-> validate_result(
                           ScoreResult(ticker, company_name, current_price,
                                       ma50_latest, d, flatness, proximity,
                                       bonus, score))]

\* fetch_stock_data as a function of the ticker and of what the provider
\* answers for it
fetch_stock_data(ticker, m) ==
    IF m.info.raises \/ m.hist.raises THEN FallbackRecord(ticker)
    ELSE ScoreBody(ticker, CompanyName(m.info, ticker), m.hist.rows).result

\* ---------------------------------------------------------------- allocator
\* df[df['Score'] > 0]
PositiveScores(data) == SelectSeq(data, LAMBDA r : FGt(r.Score, Zero))

ScoreColumn(df) == [i \in 1..Len(df) |-> df[i].Score]

\* allocate_investment: what it raises or returns.  pd.DataFrame([]) has no
\* 'Score' column, so df['Score'] raises KeyError for an empty list.
allocate_investment(data, capital) ==
    IF data = <<>> THEN [raised |-> TRUE, value |-> <<>>]
    ELSE LET df == PositiveScores(data)
             total_score == FSum(ScoreColumn(df))
         IN  IF df = <<>> THEN [raised |-> FALSE, value |-> <<>>]
             ELSE IF FLe(total_score, Zero) THEN [raised |-> FALSE, value |-> <<>>]
             ELSE [raised |-> FALSE,
                   value |-> [i \in 1..Len(df) |->
                       LET pct == FDiv(df[i].Score, total_score)
                       IN  df[i] @@ [AllocationPct |-> pct,
                                     AllocationPLN |-> Round2(FMul(pct, capital))]]]

\* ------------------------------------------------------------------- inputs
MainTickers == <<"GRG.L", "LEG", "MAN", "LDOS", "LKQ", "KDP", "UPS", "GPC">>

DefaultCapital == Num(3000)

InfoRaises == [raises |-> TRUE, longName |-> "", shortName |-> ""]
InfoLong == [raises |-> FALSE, longName |-> "Long Name Inc.", shortName |-> "Short"]
InfoShort == [raises |-> FALSE, longName |-> "", shortName |-> "Short"]
InfoNoName == [raises |-> FALSE, longName |-> "", shortName |-> ""]
Infos == {InfoRaises, InfoLong, InfoShort, InfoNoName}

HistRaises == [raises |-> TRUE, rows |-> <<>>]

\* len closes in date order: base, ..., base, mid, ..., mid, last with the
\* last k of them not base
Series(len, k, base, mid, last) ==
    [i \in 1..len |-> IF i <= len - k THEN base ELSE IF i < len THEN mid ELSE last]

\* the provider's rows, oldest first or newest first
Rows(close, newestFirst) ==
    [i \in 1..Len(close) |->
        LET j == IF newestFirst THEN Len(close) + 1 - i ELSE i
        IN  [date |-> j, close |-> close[j]]]

Prices == {Num(p) : p \in -1..MaxPrice} \cup {NaN}
Lens == {0, Window - 1, Window} \cup (Window + SlopeIndex - 1)..MaxLen

Histories ==
    {HistRaises} \cup
    {[raises |-> FALSE, rows |-> Rows(Series(len, k, b, m, l), o)] :
        len \in Lens, k \in 1..MaxTail, b \in Prices, m \in Prices, l \in Prices,
        o \in BOOLEAN}

\* a small family for the batch: a failing name lookup, a failing history, a
\* flat series and a series that ends in a dip
Flat == [raises |-> FALSE, rows |-> Rows(Series(Window, 1, Num(1), Num(1), Num(1)), FALSE)]
Dip == [raises |-> FALSE, rows |-> Rows(Series(Window, 1, Num(2), Num(2), Num(1)), FALSE)]
BatchMarkets ==
    {[info |-> InfoRaises, hist |-> Flat], [info |-> InfoLong, hist |-> HistRaises],
     [info |-> InfoLong, hist |-> Flat], [info |-> InfoNoName, hist |-> Dip]}

\* -------------------------------------------------------------------- state
VARIABLES
    tickers,          \* the ticker list handed to fetch_all_data
    market,           \* market[i]: what the provider answers for tickers[i]
    capitalArg,       \* --capital / the typed amount; None when it does not parse
    mainpc,           \* where main is
    monthly_capital,  \* main's monthly_capital
    results,          \* fetch_all_data's results list
    allocation,       \* what allocate_investment returned to main
    tpc,              \* tpc[i]: where the pool's call fetch_stock_data(tickers[i]) is
    company,          \* company[i]: that call's company_name
    slope,            \* slope[i]: that call's slope
    future,           \* future[i]: that call's returned record
    fnpc,             \* a single call of validate_result or allocate_investment:
    fnArg,            \*   where it is, its argument
    fnRet             \*   and what it returned

vars == <<tickers, market, capitalArg, mainpc, monthly_capital, results,
          allocation, tpc, company, slope, future, fnpc, fnArg, fnRet>>

inputs == <<tickers, market, capitalArg>>
mainVars == <<mainpc, monthly_capital, results, allocation>>
poolVars == <<tpc, company, slope, future>>
fnVars == <<fnpc, fnArg, fnRet>>

N == Len(tickers)
NoAllocation == [called |-> FALSE, raised |-> FALSE, value |-> <<>>]

MainStart ==
    /\ mainpc = "capital"
    /\ monthly_capital = None
    /\ results = <<>>
    /\ allocation = NoAllocation
    /\ tpc = [i \in 1..N |-> "new"]
    /\ company = [i \in 1..N |-> ""]
    /\ slope = [i \in 1..N |-> None]
    /\ future = [i \in 1..N |-> None]
    /\ fnpc = "unused" /\ fnArg = None /\ fnRet = None

\* the driver on every ticker list up to MaxTickers over the small family
Init ==
    /\ \E n \in 0..MaxTickers :
          /\ tickers = SubSeq(MainTickers, 1, n)
          /\ market \in [1..n -> BatchMarkets]
    /\ capitalArg \in {None, Num(0), Num(300)}
    /\ MainStart

\* one call of fetch_stock_data, queued in the pool, over every name lookup
\* and every history of the family
InitScorer ==
    /\ tickers = SubSeq(MainTickers, 1, 1)
    /\ market \in [1..1 -> [info : Infos, hist : Histories]]
    /\ capitalArg = Num(300)
    /\ mainpc = "collect"
    /\ monthly_capital = Num(300)
    /\ results = <<>>
    /\ allocation = NoAllocation
    /\ tpc = [i \in 1..N |-> "queued"]
    /\ company = [i \in 1..N |-> ""]
    /\ slope = [i \in 1..N |-> None]
    /\ future = [i \in 1..N |-> None]
    /\ fnpc = "unused" /\ fnArg = None /\ fnRet = None

\* a record as validate_result may be handed it: the prices absent, None or
\* a number, the metrics any float
MetricSamples == {Rat(h, 2) : h \in -1..MaxSample} \cup {NaN, PInf, NInf}
PriceSamples == {Missing, None, Num(-1), Num(0), Num(1)}

NoDriver ==
    /\ tickers = <<>> /\ market = <<>> /\ capitalArg = None
    /\ mainpc = "idle" /\ monthly_capital = None /\ results = <<>>
    /\ allocation = NoAllocation
    /\ tpc = <<>> /\ company = <<>> /\ slope = <<>> /\ future = <<>>

InitValidate ==
    /\ NoDriver
    /\ fnpc = "validate_result"
    /\ \E cp \in PriceSamples, ma \in PriceSamples, fl \in MetricSamples,
          pr \in MetricSamples, bo \in MetricSamples, sc \in MetricSamples :
          fnArg = ScoreResult("LEG", "Leggett", cp, ma, Zero, fl, pr, bo, sc)
    /\ fnRet = None

\* record lists and capitals as allocate_investment may be handed them
ScoreSamples == {Num(v) : v \in -1..MaxScore} \cup {NaN}
CapitalSamples == {Num(0), Rat(1, 100), Num(100), Num(300), Rat(107232, 100)}
SampleRecord(i, score) ==
    ScoreResult(MainTickers[i], MainTickers[i], One, One, Zero, One, One, One, score)

InitAllocator ==
    /\ NoDriver
    /\ fnpc = "allocate_investment"
    /\ \E n \in 0..MaxRecords : \E sc \in [1..n -> ScoreSamples] :
       \E cap \in CapitalSamples :
          fnArg = [data |-> [i \in 1..n |-> SampleRecord(i, sc[i])], capital |-> cap]
    /\ fnRet = None

\* ------------------------------------------------------------------ actions
\* main, lines 175-182
ParseCapital ==
    /\ mainpc = "capital"
    /\ monthly_capital' = IF capitalArg = None \/ FLe(capitalArg, Zero)
                          THEN DefaultCapital ELSE capitalArg
    /\ mainpc' = "fetch"
    /\ UNCHANGED <<inputs, results, allocation, poolVars, fnVars>>

\* fetch_all_data: executor.map submits one call per ticker, in order
Submit ==
    /\ mainpc = "fetch"
    /\ tpc' = [i \in 1..N |-> "queued"]
    /\ mainpc' = "collect"
    /\ UNCHANGED <<inputs, monthly_capital, results, allocation, company, slope,
                   future, fnVars>>

Running(pcs) == {i \in DOMAIN pcs : pcs[i] = "history"}

\* a free worker takes the oldest queued call
CanStart(i) ==
    /\ tpc[i] = "queued"
    /\ \A j \in 1..(i - 1) : tpc[j] # "queued"
    /\ Cardinality(Running(tpc)) < MaxWorkers

\* lines 68-71, and the except branch when the lookup raises
FetchInfo(i) ==
    /\ CanStart(i)
    /\ IF market[i].info.raises
       THEN /\ future' = [future EXCEPT ![i] = FallbackRecord(tickers[i])]
            /\ tpc' = [tpc EXCEPT ![i] = "done"]
            /\ UNCHANGED company
       ELSE /\ company' = [company EXCEPT ![i] = CompanyName(market[i].info, tickers[i])]
            /\ tpc' = [tpc EXCEPT ![i] = "history"]
            /\ UNCHANGED future
    /\ UNCHANGED <<inputs, mainVars, slope, fnVars>>

\* lines 74-125, and the except branch when anything in them raises
FetchHistory(i) ==
    /\ tpc[i] = "history"
    /\ IF market[i].hist.raises
       THEN /\ future' = [future EXCEPT ![i] = FallbackRecord(tickers[i])]
            /\ UNCHANGED slope
       ELSE LET body == ScoreBody(tickers[i], company[i], market[i].hist.rows)
            IN  /\ future' = [future EXCEPT ![i] = body.result]
                /\ slope' = [slope EXCEPT ![i] = body.slope]
    /\ tpc' = [tpc EXCEPT ![i] = "done"]
    /\ UNCHANGED <<inputs, mainVars, company, fnVars>>

\* NextToCollect in the order of completion (as_completed) instead of the
\* order of submission
NextCompleted(res, pcs) ==
    LET taken == {res[j].Ticker : j \in 1..Len(res)}
        ready == {i \in DOMAIN pcs : pcs[i] = "done" /\ tickers[i] \notin taken}
    IN  IF ready = {} THEN Len(res) + 1 ELSE CHOOSE i \in ready : TRUE

\* the call whose record the iterator of executor.map yields next
NextToCollect(res, pcs) == Len(res) + 1

\* line 144-145: the next record, once its call has returned
Collect ==
    /\ mainpc = "collect"
    /\ Len(results) < N
    /\ LET i == NextToCollect(results, tpc)
       IN  /\ tpc[i] = "done"
           /\ results' = Append(results, future[i])
    /\ UNCHANGED <<inputs, mainpc, monthly_capital, allocation, poolVars, fnVars>>

\* BatchComplete that stops one record short
BatchAlmostComplete(res, tks) == Len(res) >= Len(tks) - 1

\* the iterator of executor.map is exhausted
BatchComplete(res, tks) == Len(res) = Len(tks)

\* line 146, after the with block has joined the workers
FetchAllReturn ==
    /\ mainpc = "collect"
    /\ BatchComplete(results, tickers)
    /\ \A i \in 1..N : tpc[i] = "done"
    /\ mainpc' = "check"
    /\ UNCHANGED <<inputs, monthly_capital, results, allocation, poolVars, fnVars>>

\* lines 191-204: main stops without allocating when no record has a score
Check ==
    /\ mainpc = "check"
    /\ mainpc' = IF results = <<>> \/ \A i \in 1..Len(results) : results[i].Score = Zero
                 THEN "done"
                 ELSE IF PositiveScores(results) = <<>> THEN "done"
                 ELSE "allocate"
    /\ UNCHANGED <<inputs, monthly_capital, results, allocation, poolVars, fnVars>>

\* line 206
Allocate ==
    /\ mainpc = "allocate"
    /\ LET ret == allocate_investment(results, monthly_capital)
       IN  allocation' = [called |-> TRUE, raised |-> ret.raised, value |-> ret.value]
    /\ mainpc' = "done"
    /\ UNCHANGED <<inputs, monthly_capital, results, poolVars, fnVars>>

Next ==
    \/ ParseCapital
    \/ Submit
    \/ \E i \in 1..N : FetchInfo(i)
    \/ \E i \in 1..N : FetchHistory(i)
    \/ Collect
    \/ FetchAllReturn
    \/ Check
    \/ Allocate

\* the pool's calls alone
NextScorer ==
    \/ \E i \in 1..N : FetchInfo(i)
    \/ \E i \in 1..N : FetchHistory(i)

CallValidate ==
    /\ fnpc = "validate_result"
    /\ fnRet' = validate_result(fnArg)
    /\ fnpc' = "returned"
    /\ UNCHANGED <<inputs, mainVars, poolVars, fnArg>>

CallAllocate ==
    /\ fnpc = "allocate_investment"
    /\ fnRet' = allocate_investment(fnArg.data, fnArg.capital)
    /\ fnpc' = "returned"
    /\ UNCHANGED <<inputs, mainVars, poolVars, fnArg>>

Spec == Init /\ [][Next]_vars
SpecScorer == InitScorer /\ [][NextScorer]_vars
SpecValidate == InitValidate /\ [][CallValidate]_vars
SpecAllocator == InitAllocator /\ [][CallAllocate]_vars

\* ------------------------------------------------------------------- claims
Returned(i) == tpc[i] = "done"
HistoryRows(i) == market[i].hist.rows
\* the history fetch of call i failed: it raised, or gave no or too few rows
HistoryFailed(i) ==
    market[i].hist.raises \/ HistoryRows(i) = <<>> \/ Len(HistoryRows(i)) < 50
InUnit(x) == FLe(Zero, x) /\ FLe(x, One)

\* C1: every record fetch_stock_data returns, from the try body or from the
\* except branch, has Bonus >= 1.0.
C1_BonusAtLeastOne ==
    \A i \in 1..N : Returned(i) => FGe(future[i].Bonus, One)

\* C2: every record fetch_stock_data returns has Flatness and Proximity in
\* [0, 1] and a Score that is >= 0 and neither NaN nor infinite, whatever the
\* closing prices were.
C2_MetricsInRange ==
    \A i \in 1..N : Returned(i) =>
        /\ InUnit(future[i].Flatness)
        /\ InUnit(future[i].Proximity)
        /\ FGe(future[i].Score, Zero)
        /\ IsFin(future[i].Score)

\* what C2 leaves standing: all of it but the range of Proximity (not a claim)
ScoreAndFlatnessInRange ==
    \A i \in 1..N : Returned(i) =>
        /\ InUnit(future[i].Flatness)
        /\ FGe(future[i].Score, Zero)
        /\ IsFin(future[i].Score)

\* C3: when the history fetch raises, is empty or has fewer than 50 rows,
\* the call returns (nothing escapes it) the record with Ticker = Company =
\* the ticker, CurrentPrice = MA50 = None, DistancePct = 0.0 and Score = 0.0.
C3_FallbackOnHistoryFailure ==
    \A i \in 1..N :
        /\ (tpc[i] = "history" /\ HistoryFailed(i)) => ENABLED FetchHistory(i)
        /\ (Returned(i) /\ HistoryFailed(i)) =>
              /\ future[i].Ticker = tickers[i]
              /\ future[i].Company = tickers[i]
              /\ future[i].CurrentPrice = None
              /\ future[i].MA50 = None
              /\ future[i].DistancePct = Zero
              /\ future[i].Score = Zero

C3_Witness ==
    \E i \in 1..N :
        /\ Returned(i) /\ ~market[i].info.raises /\ ~market[i].hist.raises
        /\ Len(HistoryRows(i)) = 49
        /\ future[i].Company = tickers[i] /\ future[i].CurrentPrice = None

\* the history of call i is good: at least 50 rows, none with a missing close
HistoryGood(i) ==
    /\ ~market[i].hist.raises
    /\ Len(HistoryRows(i)) >= 50
    /\ \A j \in 1..Len(HistoryRows(i)) : ~IsNaN(HistoryRows(i)[j].close)

\* the record of call i holds the latest close of the history and an average
ScoredFromHistory(i) ==
    LET rows == HistoryRows(i)
        latest == CHOOSE j \in 1..Len(rows) : \A q \in 1..Len(rows) : rows[q].date <= rows[j].date
    IN  /\ future[i].CurrentPrice = rows[latest].close
        /\ future[i].MA50 # None
        /\ IsFin(future[i].MA50)

\* C4 as stated: a name lookup that fails leaves the scoring to go on, so
\* with a good history the record holds the price and the average of the
\* history and Company = the ticker.
C4_NameFailureDoesNotAbort ==
    \A i \in 1..N :
        (Returned(i) /\ market[i].info.raises /\ HistoryGood(i)) =>
            /\ future[i].Company = tickers[i]
            /\ ScoredFromHistory(i)

\* C4 as amended: a name lookup that raises ends the call with the fallback
\* record whatever the history is; a lookup that returns, with neither a long
\* nor a short name, leaves the scoring to go on with Company = the ticker.
C4_NameLookup ==
    \A i \in 1..N : Returned(i) =>
        /\ market[i].info.raises =>
              /\ future[i].Company = tickers[i]
              /\ future[i].CurrentPrice = None /\ future[i].MA50 = None
              /\ future[i].Score = Zero
        /\ (market[i].info = InfoNoName /\ HistoryGood(i)) =>
              /\ future[i].Company = tickers[i]
              /\ ScoredFromHistory(i)

C4_Witness ==
    \E i \in 1..N :
        /\ Returned(i) /\ market[i].info = InfoNoName /\ HistoryGood(i)
        /\ future[i].Company = tickers[i]
        /\ FGt(future[i].Score, Zero)

\* C10: with at least 5 defined moving-average values the slope is the
\* relative change from the value five periods before the latest to the
\* latest; with fewer the slope is 0 and Flatness is 1.  (With exactly 5
\* values there is no value five periods before the latest, and nothing is
\* asked.)
C10_SlopeOverFivePeriods ==
    \A i \in 1..N : (Returned(i) /\ slope[i] # None) =>
        LET ma == MA50Series(HistoryRows(i))
            n == Len(ma)
        IN  /\ n >= 6 => slope[i] = FDiv(FSub(ma[n], ma[n - 5]), ma[n - 5])
            /\ n < 5 => slope[i] = Zero /\ future[i].Flatness = One

\* what the code does instead: the fifth value from the end, four periods
\* before the latest (not a claim)
SlopeOverFourPeriods ==
    \A i \in 1..N : (Returned(i) /\ slope[i] # None) =>
        LET ma == MA50Series(HistoryRows(i))
            n == Len(ma)
        IN  /\ n >= 5 => slope[i] = FDiv(FSub(ma[n], ma[n - 4]), ma[n - 4])
            /\ n < 5 => slope[i] = Zero /\ future[i].Flatness = One

\* fetch_all_data has returned its list to main
BatchReturned == mainpc \in {"check", "allocate", "done"}
Failing(i) == market[i].info.raises \/ HistoryFailed(i)

\* C5: whatever the order in which the calls run and return, and whichever
\* of them fail, fetch_all_data returns one record per ticker in the order
\* of the tickers; the record of a ticker is the one its own provider answer
\* gives (the fallback record when that fails), whatever the others did.
C5_OneRecordPerTickerInOrder ==
    BatchReturned =>
        /\ Len(results) = N
        /\ \A i \in 1..N :
              /\ results[i].Ticker = tickers[i]
              /\ results[i] = fetch_stock_data(tickers[i], market[i])
              /\ Failing(i) => results[i] = FallbackRecord(tickers[i])

C5_Witness ==
    /\ BatchReturned
    /\ N >= 2
    /\ \E i, j \in 1..N :
          /\ i < j
          /\ ~Failing(i) /\ FGt(results[i].Score, Zero)
          /\ Failing(j) /\ results[j] = FallbackRecord(tickers[j])

\* C6: allocate_investment is not called before every call of the batch has
\* returned, and the list it is called on holds the record of every call.
C6_AllocatorAfterAllScorers ==
    (mainpc = "allocate" \/ allocation.called) =>
        /\ \A i \in 1..N : Returned(i)
        /\ Len(results) = N
        /\ \A i \in 1..N : results[i] = future[i]

C6_Witness ==
    /\ mainpc = "allocate"
    /\ N >= 2
    /\ \E i \in 1..N : Failing(i)

\* ---- allocate_investment on its own
AllocCalled == fnpc = "returned"
Positive(data) == {i \in 1..Len(data) : FGt(data[i].Score, Zero)}
PctColumn(out) == [i \in 1..Len(out) |-> out[i].AllocationPct]
AmountColumn(out) == [i \in 1..Len(out) |-> out[i].AllocationPLN]
FAbsDiff(a, b) == FAbs(FSub(a, b))

\* the returned records are the records with Score > 0, one each, carrying
\* Score / (sum of the returned Scores), in [0, 1] and summing to 1
AllocationShares(data, out) ==
    /\ Len(out) = Cardinality(Positive(data))
    /\ \A i \in Positive(data) :
          Cardinality({j \in 1..Len(out) : out[j].Ticker = data[i].Ticker}) = 1
    /\ \A j \in 1..Len(out) :
          /\ \E i \in Positive(data) :
                /\ out[j].Ticker = data[i].Ticker
                /\ out[j].Score = data[i].Score
          /\ out[j].AllocationPct =
                FDiv(out[j].Score, FSum([q \in 1..Len(out) |-> out[q].Score]))
          /\ InUnit(out[j].AllocationPct)
    /\ out # <<>> => FSum(PctColumn(out)) = One

\* C7: allocate_investment returns one record for each record with
\* Score > 0 and none for the others, an empty list when no record has
\* Score > 0, and otherwise shares Score / (sum of returned Scores) that lie
\* in [0, 1] and sum to 1.
C7_AllocationShares ==
    AllocCalled =>
        /\ ~fnRet.raised
        /\ Positive(fnArg.data) = {} => fnRet.value = <<>>
        /\ AllocationShares(fnArg.data, fnRet.value)

\* what C7 leaves standing: all of it for a list that is not empty (not a claim)
AllocationSharesOfNonEmptyList ==
    (AllocCalled /\ fnArg.data # <<>>) =>
        /\ ~fnRet.raised
        /\ Positive(fnArg.data) = {} => fnRet.value = <<>>
        /\ AllocationShares(fnArg.data, fnRet.value)

\* C8: with a positive capital and at least one record of positive score,
\* each amount is a whole number of hundredths, within half a hundredth of
\* AllocationPct x capital and >= 0, and the amounts sum to the capital to
\* within 0.01 x (number of amounts); scores 2.0 and 1.0 with capital 300
\* give 200.0 and 100.0.
C8_AllocatedAmounts ==
    (AllocCalled /\ FGt(fnArg.capital, Zero) /\ Positive(fnArg.data) # {}) =>
        LET out == fnRet.value
        IN  /\ ~fnRet.raised
            /\ out # <<>>
            /\ \A j \in 1..Len(out) :
                  LET amount == out[j].AllocationPLN
                      exact == FMul(out[j].AllocationPct, fnArg.capital)
                  IN  /\ IsFin(amount)
                      /\ FMul(amount, Num(100)).d = 1
                      /\ FLe(FAbsDiff(amount, exact), Rat(1, 200))
                      /\ FGe(amount, Zero)
            /\ FLe(FAbsDiff(FSum(AmountColumn(out)), fnArg.capital),
                   FMul(Rat(1, 100), Num(Len(out))))
            /\ (/\ Len(fnArg.data) = 2
                /\ fnArg.data[1].Score = Num(2) /\ fnArg.data[2].Score = Num(1)
                /\ fnArg.capital = Num(300)) =>
                  AmountColumn(out) = <<Num(200), Num(100)>>

C8_Witness ==
    /\ AllocCalled
    /\ fnArg.capital = Rat(107232, 100)
    /\ Len(fnArg.data) = 3
    /\ Len(fnRet.value) = 2
    /\ \E j \in 1..2 :
          fnRet.value[j].AllocationPLN # FMul(fnRet.value[j].AllocationPct, fnArg.capital)

\* ---- validate_result on its own
ValidateCalled == fnpc = "returned"
BadPrice(x) == x = Missing \/ x = None \/ FLe(x, Zero)
GoodPrice(x) == IsFloat(x) /\ FGt(x, Zero)

\* C9: a record with a missing, None or non-positive CurrentPrice or MA50
\* comes back with Score = 0.0 and the two prices as they were; a record with
\* both prices positive, Flatness and Proximity in [0, 1], Bonus >= 1 and a
\* finite Score comes back unchanged.
C9_ValidateFrame ==
    ValidateCalled =>
        /\ (BadPrice(fnArg.CurrentPrice) \/ BadPrice(fnArg.MA50)) =>
              /\ fnRet.Score = Zero
              /\ fnRet.CurrentPrice = fnArg.CurrentPrice
              /\ fnRet.MA50 = fnArg.MA50
        /\ (/\ GoodPrice(fnArg.CurrentPrice) /\ GoodPrice(fnArg.MA50)
            /\ InUnit(fnArg.Flatness) /\ InUnit(fnArg.Proximity)
            /\ FGe(fnArg.Bonus, One) /\ IsFin(fnArg.Score)) =>
              fnRet = fnArg

C9_Witness ==
    /\ ValidateCalled
    /\ fnArg.CurrentPrice = Num(0) /\ fnArg.MA50 = Num(1)
    /\ fnArg.Score = PInf /\ fnArg.Bonus = Rat(3, 2)
    /\ fnRet.Score = Zero /\ fnRet.CurrentPrice = Num(0)

====
